---- MODULE Spec2Model ----
(***************************************************************************)
(* PawPal+ scheduling core (src/src/pawpal_system.py).                     *)
(*                                                                         *)
(* Task objects live in a heap (the sequence `tasks`, a Task's identity is *)
(* its index); Pet.tasks, the scheduler's candidate pool and the Schedule  *)
(* hold references (indices) into it.  Python compares dataclasses by      *)
(* value, so `==`, `in` and list.remove compare the heap records.          *)
(* Times of day are minutes since midnight, 0 .. MinutesPerDay - 1;        *)
(* percentages are kept in hundredths of a percent (2 decimals).           *)
(***************************************************************************)
EXTENDS Integers, Sequences, FiniteSets, TLC

VARIABLES
    available_time_minutes, \* Owner.available_time_minutes
    pets,                   \* Owner.pets: sequence of [name, tasks]
    tasks,                  \* the heap of Task objects ever constructed
    pc,                     \* position of the caller / of generate_schedule
    available_tasks,        \* generate_schedule: the candidate pool
    current_time,           \* generate_schedule: the cursor
    remaining_time,         \* generate_schedule: the remaining budget
    order_index,            \* generate_schedule: the next order index
    schedule,               \* the Schedule under construction / returned
    conflict_check,         \* the last conflicts_with call and its result
    preferences,            \* Owner.preferences
    priority_weights,       \* PriorityGreedyScheduler.priority_weights
    previous_run,           \* the caller's record of the call before this one
    last_call               \* the caller's last other call and what it returned

vars == <<available_time_minutes, pets, tasks, pc, available_tasks,
          current_time, remaining_time, order_index, schedule, conflict_check,
          preferences, priority_weights, previous_run, last_call>>

\* what only the caller's later steps write
callerVars == <<preferences, priority_weights, previous_run, last_call>>

(***************************************************************************)
(* Bounds of the model                                                     *)
(***************************************************************************)
MaxTasks == 3
MaxHandBuilt == 3
MaxLifeTasks == 2
MaxRecurTasks == 3
MaxAppPets == 2
MaxAppTasks == 2
MaxQueryTasks == 3

(***************************************************************************)
(* Enumerations and input sets                                             *)
(***************************************************************************)
LOW == 1
MEDIUM == 2
HIGH == 3
CRITICAL == 4
Priority == {LOW, MEDIUM, HIGH, CRITICAL}

PriorityName(p) ==
    CASE p = LOW -> "LOW"
      [] p = MEDIUM -> "MEDIUM"
      [] p = HIGH -> "HIGH"
      [] p = CRITICAL -> "CRITICAL"

TaskCategory == {"walk", "feeding", "medication", "grooming", "enrichment"}
TaskFrequency == {"once", "daily", "weekly", "monthly"}

\* Python's None, for a Schedule or call record, a Task reference (references
\* are 1, 2, ...) and a frequency
None == [none |-> TRUE]
NoTask == 0
NoFrequency == "None"

MinutesPerDay == 24 * 60
StartOfDay == 6 * 60

\* Values the callers pass.  Nothing in Task or Owner restricts them, so the
\* sets hold a zero duration and a zero and a negative budget as well; 600
\* minutes is a task longer than the small budgets, and three of them pass
\* midnight.
TaskInput(title, category, duration_minutes, priority) ==
    [title |-> title, category |-> category,
     duration_minutes |-> duration_minutes, priority |-> priority,
     frequency |-> NoFrequency]

TaskInputs ==
    {TaskInput("Feed", "feeding", 10, pr) : pr \in {LOW, HIGH, CRITICAL}}
    \cup {TaskInput("Walk", "walk", 30, pr) : pr \in {LOW, HIGH}}
    \cup {TaskInput("Groom", "grooming", 45, LOW),
          TaskInput("Hike", "enrichment", 600, HIGH),
          TaskInput("Pill", "medication", 0, MEDIUM)}

Budgets == {-15, 0, 40, 1800}
PetNames == {"Mochi", "Luna"}
HandTimes == {StartOfDay, StartOfDay + 15, 23 * 60, 23 * 60 + 30}
HandDurations == {15, 30, 90}

\* Tasks of the life cycle: recurring ones, one with frequency ONCE given and
\* one with no frequency given
LifeInputs ==
    {[TaskInput("Feed", "feeding", 10, HIGH) EXCEPT !.frequency = "daily"],
     [TaskInput("Groom", "grooming", 45, LOW) EXCEPT !.frequency = "monthly"],
     [TaskInput("Walk", "walk", 30, LOW) EXCEPT !.frequency = "once"],
     TaskInput("Walk", "walk", 30, LOW)}
LifeBudgets == {40}

\* Tasks and arguments of the queries: the shorter task has the lower
\* priority, and a task added twice gives equal keys; CRITICAL and
\* "medication" match no task
QueryInputs ==
    {TaskInput("Feed", "feeding", 10, LOW), TaskInput("Walk", "walk", 30, HIGH)}
QueryPriorities == {LOW, HIGH, CRITICAL}
QueryCategories == {"feeding", "walk", "medication"}

\* The owners of the scenarios: the tasks of the insufficient-time test and of
\* the utilization test, with budgets that divide the totals exactly (40,
\* 100) and not (90), and no budget
ScenarioInputs ==
    {TaskInput("Feed", "feeding", 10, CRITICAL), TaskInput("Walk", "walk", 30, HIGH),
     TaskInput("Groom", "grooming", 45, LOW), TaskInput("Task", "walk", 50, HIGH)}
ScenarioBudgets == {0, 40, 90, 100}

\* The ScheduledTasks of the conflict test (06:00 for 30 minutes, 06:15 for
\* 20) and one that follows them, and the budgets a caller passes to
\* calculate_utilization
TotalsEntries ==
    {[scheduled_time |-> StartOfDay, duration |-> 30],
     [scheduled_time |-> StartOfDay + 15, duration |-> 20],
     [scheduled_time |-> StartOfDay + 35, duration |-> 50]}
TotalsBudgets == {0, 90, 100}

\* What a user of the app enters: a budget (0 to 480), pet names (the field is
\* free text, so a name can be entered twice) and tasks (durations from 1)
AppBudgets == {0, 30}
AppPetNames == {"Mochi", "Luna"}
AppInputs == {TaskInput("Morning walk", "walk", 30, HIGH), TaskInput("Feed", "feeding", 10, LOW)}

\* Advisory configurations: the defaults, preferences that ask for an order,
\* a threshold and grouping, and a weights table that reverses the tiers
Configuration(preferred_task_order, priority_threshold, group_similar_tasks, weights) ==
    [preferred_task_order |-> preferred_task_order,
     priority_threshold |-> priority_threshold,
     group_similar_tasks |-> group_similar_tasks,
     priority_weights |-> weights]

\* Tasks and budgets of the regenerating caller
RegenInputs ==
    {TaskInput("Feed", "feeding", 10, CRITICAL), TaskInput("Walk", "walk", 30, HIGH),
     TaskInput("Walk", "walk", 30, LOW), TaskInput("Groom", "grooming", 45, LOW)}
RegenBudgets == {0, 40}

Configurations ==
    {Configuration(<<>>, LOW, FALSE, [p \in Priority |-> 10 * p]),
     Configuration(<<"walk", "feeding">>, HIGH, TRUE, [p \in Priority |-> 10 * p]),
     Configuration(<<>>, LOW, FALSE, [p \in Priority |-> 50 - 10 * p])}
LifePetNames == {"Mochi"}

(***************************************************************************)
(* Task                                                                    *)
(***************************************************************************)
\* Task(...) with __post_init__: a missing frequency becomes ONCE.  No field
\* is validated.
Task(title, duration_minutes, priority, category, frequency) ==
    [title |-> title,
     duration_minutes |-> duration_minutes,
     priority |-> priority,
     category |-> category,
     description |-> "",
     frequency |-> IF frequency = NoFrequency THEN "once" ELSE frequency,
     is_completed |-> FALSE]

get_priority_score(t) == tasks[t].priority

(***************************************************************************)
(* Sequence helpers: Python list operations                                *)
(***************************************************************************)
RECURSIVE SumSeq(_)
SumSeq(s) == IF s = <<>> THEN 0 ELSE Head(s) + SumSeq(Tail(s))

\* task in lst: some element is the same object or equal by value
Contains(lst, t) == \E i \in DOMAIN lst : lst[i] = t \/ tasks[lst[i]] = tasks[t]

IndexOf(lst, t) ==
    CHOOSE i \in DOMAIN lst :
        /\ lst[i] = t \/ tasks[lst[i]] = tasks[t]
        /\ \A j \in 1..(i - 1) : ~(lst[j] = t \/ tasks[lst[j]] = tasks[t])

\* a removal that filters out every element equal to t
ListRemoveAllEqual(lst, t) ==
    SelectSeq(lst, LAMBDA x : ~(x = t \/ tasks[x] = tasks[t]))

\* lst.remove(t): drops the first element equal to t (the caller has checked
\* that there is one; otherwise Python raises ValueError)
ListRemove(lst, t) ==
    LET i == IndexOf(lst, t)
    IN SubSeq(lst, 1, i - 1) \o SubSeq(lst, i + 1, Len(lst))

\* sorted(lst, key=get_priority_score, reverse=True): stable, so an element is
\* placed after every element whose key is at least its own
RECURSIVE InsertByPriority(_, _)
InsertByPriority(sorted, t) ==
    IF sorted = <<>> THEN <<t>>
    ELSE IF get_priority_score(Head(sorted)) >= get_priority_score(t)
         THEN <<Head(sorted)>> \o InsertByPriority(Tail(sorted), t)
         ELSE <<t>> \o sorted

RECURSIVE SortedByPriority(_)
SortedByPriority(lst) ==
    IF lst = <<>> THEN <<>>
    ELSE InsertByPriority(SortedByPriority(SubSeq(lst, 1, Len(lst) - 1)), lst[Len(lst)])

\* an insertion that places an element before the elements of equal duration
RECURSIVE InsertByTimeBeforeTies(_, _)
InsertByTimeBeforeTies(sorted, t) ==
    IF sorted = <<>> THEN <<t>>
    ELSE IF tasks[Head(sorted)].duration_minutes < tasks[t].duration_minutes
         THEN <<Head(sorted)>> \o InsertByTimeBeforeTies(Tail(sorted), t)
         ELSE <<t>> \o sorted

\* sorted(lst, key=duration_minutes): stable, so an element is placed after
\* every element whose key is at most its own
RECURSIVE InsertByTime(_, _)
InsertByTime(sorted, t) ==
    IF sorted = <<>> THEN <<t>>
    ELSE IF tasks[Head(sorted)].duration_minutes <= tasks[t].duration_minutes
         THEN <<Head(sorted)>> \o InsertByTime(Tail(sorted), t)
         ELSE <<t>> \o sorted

RECURSIVE SortedByTime(_)
SortedByTime(lst) ==
    IF lst = <<>> THEN <<>>
    ELSE InsertByTime(SortedByTime(SubSeq(lst, 1, Len(lst) - 1)), lst[Len(lst)])

(***************************************************************************)
(* Pet                                                                     *)
(***************************************************************************)
\* a filter that takes the tasks of at least the given priority
get_tasks_by_priority_at_least(p, priority) ==
    SelectSeq(pets[p].tasks, LAMBDA t : tasks[t].priority >= priority)

get_tasks_by_priority(p, priority) ==
    SelectSeq(pets[p].tasks, LAMBDA t : tasks[t].priority = priority)

get_tasks_by_category(p, category) ==
    SelectSeq(pets[p].tasks, LAMBDA t : tasks[t].category = category)

get_tasks_by_completion(p, completed) ==
    SelectSeq(pets[p].tasks, LAMBDA t : tasks[t].is_completed = completed)

get_incomplete_tasks(p) == get_tasks_by_completion(p, FALSE)

(***************************************************************************)
(* Owner                                                                   *)
(***************************************************************************)
RECURSIVE FlattenTasks(_)
FlattenTasks(ps) ==
    IF ps = <<>> THEN <<>> ELSE Head(ps).tasks \o FlattenTasks(Tail(ps))

\* an aggregation that leaves completed tasks out
get_all_tasks_incomplete == SelectSeq(FlattenTasks(pets), LAMBDA t : ~tasks[t].is_completed)

get_all_tasks == FlattenTasks(pets)

\* [task for task in self.get_all_tasks() if not task.is_completed]
Owner_get_incomplete_tasks == SelectSeq(get_all_tasks, LAMBDA t : ~tasks[t].is_completed)

get_tasks_sorted_by_priority == SortedByPriority(get_all_tasks)

get_tasks_sorted_by_time == SortedByTime(get_all_tasks)

(***************************************************************************)
(* ScheduledTask                                                           *)
(***************************************************************************)
\* the default reasoning "" of a ScheduledTask
NoReasoning == [priority |-> "", category |-> "", chosen_over |-> <<>>]

ScheduledTask(task, scheduled_time, index, reasoning) ==
    [task |-> task, scheduled_time |-> scheduled_time,
     order_index |-> index, reasoning |-> reasoning]

\* datetime.combine(today, t) + timedelta(minutes=m), then .time(): the date
\* is dropped, so the result wraps at midnight
AddMinutes(t, m) == (t + m) % MinutesPerDay

get_end_time(st) == AddMinutes(st.scheduled_time, tasks[st.task].duration_minutes)

conflicts_with(a, b) ==
    ~(get_end_time(a) <= b.scheduled_time \/ get_end_time(b) <= a.scheduled_time)

(***************************************************************************)
(* Schedule                                                                *)
(***************************************************************************)
\* a Schedule whose utilization defaults to 100 percent
NewScheduleFullyUtilized ==
    [scheduled_tasks |-> <<>>, unscheduled_tasks |-> <<>>,
     total_time_minutes |-> 0, utilization_percentage |-> 10000]

\* a Schedule whose list defaults are shared with the Schedule made before
NewScheduleShared ==
    [scheduled_tasks |-> IF previous_run = None THEN <<>>
                         ELSE previous_run.schedule.scheduled_tasks,
     unscheduled_tasks |-> IF previous_run = None THEN <<>>
                           ELSE previous_run.schedule.unscheduled_tasks,
     total_time_minutes |-> 0, utilization_percentage |-> 0]

\* Schedule(date=...) with the dataclass defaults
NewSchedule ==
    [scheduled_tasks |-> <<>>, unscheduled_tasks |-> <<>>,
     total_time_minutes |-> 0, utilization_percentage |-> 0]

DurationsOf(sts) == [i \in DOMAIN sts |-> tasks[sts[i].task].duration_minutes]

\* a total added to the stored one
calculate_total_time_accumulating(s) ==
    s.total_time_minutes + SumSeq(DurationsOf(s.scheduled_tasks))

calculate_total_time(s) == SumSeq(DurationsOf(s.scheduled_tasks))

\* a percentage cut off after two decimals
RoundHundredthsDown(n, d) == (10000 * n) \div d

\* round(n / d * 100, 2) in hundredths: the integer nearest to 10000 n / d,
\* a tie going to the even one
RoundHundredths(n, d) ==
    LET num == IF d < 0 THEN -(10000 * n) ELSE 10000 * n
        den == IF d < 0 THEN -d ELSE d
        q == num \div den
        r == num % den
    IN IF 2 * r < den THEN q
       ELSE IF 2 * r > den THEN q + 1
       ELSE IF q % 2 = 0 THEN q ELSE q + 1

\* total / available_time * 100, rounded: raises ZeroDivisionError on a zero
\* divisor
Percentage(total, available_time) ==
    IF available_time = 0 THEN [raised |-> TRUE, value |-> 0]
    ELSE [raised |-> FALSE, value |-> RoundHundredths(total, available_time)]

\* calculate_utilization without its test for a zero budget
calculate_utilization_unguarded(s, available_time) ==
    Percentage(s.total_time_minutes, available_time)

\* the value calculate_utilization stores and returns, or the error it raises
calculate_utilization(s, available_time) ==
    IF available_time = 0 THEN [raised |-> FALSE, value |-> 0]
    ELSE Percentage(s.total_time_minutes, available_time)

validate(s) ==
    \A i \in DOMAIN s.scheduled_tasks :
        \A j \in (i + 1)..Len(s.scheduled_tasks) :
            ~conflicts_with(s.scheduled_tasks[i], s.scheduled_tasks[j])

\* t.strftime('%H:%M')
Digit(n) == CASE n = 0 -> "0" [] n = 1 -> "1" [] n = 2 -> "2" [] n = 3 -> "3"
              [] n = 4 -> "4" [] n = 5 -> "5" [] n = 6 -> "6" [] n = 7 -> "7"
              [] n = 8 -> "8" [] n = 9 -> "9"

TwoDigits(n) == Digit(n \div 10) \o Digit(n % 10)

strftime(t) == TwoDigits(t \div 60) \o ":" \o TwoDigits(t % 60)

\* f"{start.strftime('%H:%M')} - {end.strftime('%H:%M')}"
\* a window written without the spaces around the dash
TimeWindowCompact(st) == strftime(st.scheduled_time) \o "-" \o strftime(get_end_time(st))

TimeWindow(st) == strftime(st.scheduled_time) \o " - " \o strftime(get_end_time(st))

\* the dictionary detect_conflicts appends for task1 and task2
ConflictRecord(task1, task2) ==
    [task1 |-> tasks[task1.task].title,
     task1_time |-> TimeWindow(task1),
     task2 |-> tasks[task2.task].title,
     task2_time |-> TimeWindow(task2),
     overlap |-> "These tasks have overlapping time slots"]

\* the two loops of detect_conflicts from positions i and j on; the inner
\* loop starts `first` positions after the outer one
RECURSIVE DetectScan(_, _, _, _)
DetectScan(sts, i, j, first) ==
    IF i > Len(sts) THEN <<>>
    ELSE IF j > Len(sts) THEN DetectScan(sts, i + 1, i + 1 + first, first)
    ELSE (IF conflicts_with(sts[i], sts[j])
          THEN <<ConflictRecord(sts[i], sts[j])>> ELSE <<>>)
         \o DetectScan(sts, i, j + 1, first)

\* a detection whose inner loop starts at the outer position itself
detect_conflicts_from_self(s) == DetectScan(s.scheduled_tasks, 1, 1, 0)

detect_conflicts(s) == DetectScan(s.scheduled_tasks, 1, 2, 1)

(***************************************************************************)
(* PriorityGreedyScheduler                                                 *)
(***************************************************************************)
\* a score read from the scheduler's priority_weights table
_calculate_task_score_weighted(t) == priority_weights[tasks[t].priority]

_calculate_task_score(t) == get_priority_score(t)

\* the scan of _select_next_task: <<best_task, best_score>> after the loop
RECURSIVE SelectScan(_, _, _)
SelectScan(lst, best_task, best_score) ==
    IF lst = <<>> THEN best_task
    ELSE IF _calculate_task_score(Head(lst)) > best_score
         THEN SelectScan(Tail(lst), Head(lst), _calculate_task_score(Head(lst)))
         ELSE SelectScan(Tail(lst), best_task, best_score)

\* a scan that compares with >=, so the last of the best tasks wins
RECURSIVE SelectScanLast(_, _, _)
SelectScanLast(lst, best_task, best_score) ==
    IF lst = <<>> THEN best_task
    ELSE IF _calculate_task_score(Head(lst)) >= best_score
         THEN SelectScanLast(Tail(lst), Head(lst), _calculate_task_score(Head(lst)))
         ELSE SelectScanLast(Tail(lst), best_task, best_score)

_select_next_task_last(lst) ==
    IF lst = <<>> THEN NoTask ELSE SelectScanLast(lst, NoTask, -1)

_select_next_task(lst) ==
    IF lst = <<>> THEN NoTask ELSE SelectScan(lst, NoTask, -1)

\* a fit test against the owner's whole budget instead of what remains of it
_can_fit_task_whole_budget(t, remaining) ==
    tasks[t].duration_minutes <= available_time_minutes

\* a fit test with < in place of <=
_can_fit_task_strict(t, remaining) == tasks[t].duration_minutes < remaining

_can_fit_task(t, remaining) == tasks[t].duration_minutes <= remaining

\* the names of alternatives[1:3]
NamesAfterFirst(alternatives) ==
    [i \in 1..(IF Len(alternatives) < 3 THEN Len(alternatives) - 1 ELSE 2) |->
        PriorityName(tasks[alternatives[i + 1]].priority)]

\* a clause that needs two alternatives besides the first
other_priorities_of_two(alternatives) ==
    IF Len(alternatives) > 2 THEN NamesAfterFirst(alternatives) ELSE <<>>

\* the priority names of the "chosen over" clause, <<>> when there is none
other_priorities(alternatives) ==
    IF Len(alternatives) > 1 THEN NamesAfterFirst(alternatives) ELSE <<>>

\* the reasons list of _generate_reasoning: the priority clause, the category
\* clause ("" when the category has none) and the priority names of the
\* "chosen over" clause (<<>> when the clause is absent)
_generate_reasoning(t, alternatives) ==
    [priority |->
        IF tasks[t].priority = CRITICAL THEN "CRITICAL priority - must be completed"
        ELSE IF tasks[t].priority = HIGH THEN "HIGH priority task"
        ELSE IF tasks[t].priority = MEDIUM THEN "MEDIUM priority task"
        ELSE "LOW priority task",
     category |->
        IF tasks[t].category = "medication" THEN "medication should not be delayed"
        ELSE IF tasks[t].category = "feeding" THEN "feeding is essential care"
        ELSE IF tasks[t].category = "walk" THEN "exercise is important for pet health"
        ELSE "",
     chosen_over |-> other_priorities(alternatives)]

(***************************************************************************)
(* The caller builds the owner: Owner(...), add_pet, add_task              *)
(***************************************************************************)
Pet(name) == [name |-> name, tasks |-> <<>>]

\* OwnerPreferences(...); Owner.__post_init__ creates one with the defaults
OwnerPreferences(preferred_task_order, priority_threshold, group_similar_tasks) ==
    [preferred_task_order |-> preferred_task_order,
     priority_threshold |-> priority_threshold,
     group_similar_tasks |-> group_similar_tasks]

\* the table PriorityGreedyScheduler.__init__ uses when it is given none
\* (weights in tenths)
DefaultWeights == [p \in Priority |-> 10 * p]

Idle ==
    /\ available_tasks = <<>>
    /\ current_time = StartOfDay
    /\ remaining_time = 0
    /\ order_index = 0

Init ==
    /\ available_time_minutes \in Budgets
    /\ pets = <<>>
    /\ tasks = <<>>
    /\ pc = "idle"
    /\ Idle
    /\ schedule = None
    /\ conflict_check = None
    /\ preferences = OwnerPreferences(<<>>, LOW, FALSE)
    /\ priority_weights = DefaultWeights
    /\ previous_run = None
    /\ last_call = None

\* owner.add_pet(Pet(name, ...)); a caller gives each pet its own name
add_pet(name) ==
    /\ pc = "idle"
    /\ \A i \in DOMAIN pets : pets[i].name # name
    /\ pets' = Append(pets, Pet(name))
    /\ UNCHANGED <<available_time_minutes, tasks, pc, available_tasks, current_time,
                   remaining_time, order_index, schedule, conflict_check,
                   callerVars>>

\* pet.add_task(Task(title, duration, priority, category))
add_task(p, in) ==
    /\ pc = "idle"
    /\ Len(tasks) < MaxTasks
    /\ tasks' = Append(tasks, Task(in.title, in.duration_minutes, in.priority, in.category,
                                   in.frequency))
    /\ pets' = [pets EXCEPT ![p].tasks = Append(@, Len(tasks) + 1)]
    /\ UNCHANGED <<available_time_minutes, pc, available_tasks, current_time,
                   remaining_time, order_index, schedule, conflict_check,
                   callerVars>>

(***************************************************************************)
(* PriorityGreedyScheduler.generate_schedule                               *)
(***************************************************************************)
\* schedule.calculate_total_time(); schedule.calculate_utilization(budget);
\* return schedule
Finalize(s) ==
    LET total == calculate_total_time(s)
        s1 == [s EXCEPT !.total_time_minutes = total]
        u == calculate_utilization(s1, available_time_minutes)
    IN /\ schedule' = IF u.raised THEN s1
                      ELSE [s1 EXCEPT !.utilization_percentage = u.value]
       /\ pc' = IF u.raised THEN "error" ELSE "done"
       /\ available_tasks' = <<>>
       /\ current_time' = StartOfDay
       /\ remaining_time' = 0
       /\ order_index' = 0

\* a no-time case that returns the empty schedule
NoTimeScheduleEmpty(sorted) == NewSchedule

\* a no-time case that returns the tasks as aggregated, not sorted
NoTimeScheduleUnsorted(sorted) == [NewSchedule EXCEPT !.unscheduled_tasks = get_all_tasks]

\* the schedule returned when the budget is <= 0
NoTimeSchedule(sorted) == [NewSchedule EXCEPT !.unscheduled_tasks = sorted]

\* a beginning that sorts each pet's own list (pet.tasks.sort) before it
\* aggregates
generate_schedule_begin_sorting_in_place ==
    /\ pc = "idle"
    /\ schedule = None
    /\ pets' = [p \in DOMAIN pets |-> [pets[p] EXCEPT !.tasks = SortedByPriority(@)]]
    /\ LET sorted == SortedByPriority(get_all_tasks)
       IN IF sorted = <<>>
          THEN /\ schedule' = NewSchedule
               /\ pc' = "done"
               /\ UNCHANGED <<available_tasks, current_time, remaining_time, order_index>>
          ELSE IF available_time_minutes <= 0
          THEN Finalize(NoTimeSchedule(sorted))
          ELSE /\ schedule' = NewSchedule
               /\ pc' = "loop"
               /\ available_tasks' = sorted
               /\ current_time' = StartOfDay
               /\ remaining_time' = available_time_minutes
               /\ order_index' = 0
    /\ UNCHANGED <<available_time_minutes, tasks, conflict_check, callerVars>>

\* lines 363-384: aggregate and sort, the two edge cases, the loop's locals
generate_schedule_begin ==
    /\ pc = "idle"
    /\ schedule = None
    /\ LET sorted == SortedByPriority(get_all_tasks)
       IN IF sorted = <<>>
          THEN /\ schedule' = NewSchedule
               /\ pc' = "done"
               /\ UNCHANGED <<available_tasks, current_time, remaining_time, order_index>>
          ELSE IF available_time_minutes <= 0
          THEN Finalize(NoTimeSchedule(sorted))
          ELSE /\ schedule' = NewSchedule
               /\ pc' = "loop"
               /\ available_tasks' = sorted
               /\ current_time' = StartOfDay
               /\ remaining_time' = available_time_minutes
               /\ order_index' = 0
    /\ UNCHANGED <<available_time_minutes, pets, tasks, conflict_check,
                   callerVars>>

LoopCondition == remaining_time > 0 /\ available_tasks # <<>>

\* lines 395-400: the selected task does not fit
RejectTask ==
    /\ pc = "loop"
    /\ LoopCondition
    /\ LET next_task == _select_next_task(available_tasks)
       IN /\ next_task # NoTask
          /\ ~_can_fit_task(next_task, remaining_time)
          /\ IF Contains(available_tasks, next_task)
             THEN /\ available_tasks' = ListRemove(available_tasks, next_task)
                  /\ schedule' = [schedule EXCEPT !.unscheduled_tasks = Append(@, next_task)]
                  /\ pc' = "loop"
             ELSE /\ pc' = "error"
                  /\ UNCHANGED <<available_tasks, schedule>>
    /\ UNCHANGED <<available_time_minutes, pets, tasks, current_time, remaining_time,
                   order_index, conflict_check,
                   callerVars>>

\* lines 402-423: the selected task fits
ScheduleTask ==
    /\ pc = "loop"
    /\ LoopCondition
    /\ LET next_task == _select_next_task(available_tasks)
       IN /\ next_task # NoTask
          /\ _can_fit_task(next_task, remaining_time)
          /\ LET reasoning == _generate_reasoning(next_task, SubSeq(available_tasks, 1,
                                  IF Len(available_tasks) < 3 THEN Len(available_tasks) ELSE 3))
                 scheduled_task == ScheduledTask(next_task, current_time, order_index, reasoning)
             IN /\ schedule' = [schedule EXCEPT !.scheduled_tasks = Append(@, scheduled_task)]
                /\ IF Contains(available_tasks, next_task)
                   THEN /\ available_tasks' = ListRemove(available_tasks, next_task)
                        /\ remaining_time' = remaining_time - tasks[next_task].duration_minutes
                        /\ order_index' = order_index + 1
                        /\ current_time' = AddMinutes(current_time, tasks[next_task].duration_minutes)
                        /\ pc' = "loop"
                   ELSE /\ pc' = "error"
                        /\ UNCHANGED <<available_tasks, remaining_time, order_index, current_time>>
    /\ UNCHANGED <<available_time_minutes, pets, tasks, conflict_check,
                   callerVars>>

\* lines 391-393 and 425-432: the loop ends (its condition fails, or no task
\* was selected); the remaining candidates are unscheduled; totals; return
generate_schedule_end ==
    /\ pc = "loop"
    /\ ~LoopCondition \/ _select_next_task(available_tasks) = NoTask
    /\ Finalize([schedule EXCEPT !.unscheduled_tasks = @ \o available_tasks])
    /\ UNCHANGED <<available_time_minutes, pets, tasks, conflict_check,
                   callerVars>>

\* the whole call, from the owner as it is now: the loop of lines 387-423
\* from the state of its locals to the Schedule it leaves
RECURSIVE GreedyLoop(_, _, _, _, _)
GreedyLoop(available, time, remaining, index, s) ==
    IF ~(remaining > 0 /\ available # <<>>) \/ _select_next_task(available) = NoTask
    THEN [s EXCEPT !.unscheduled_tasks = @ \o available]
    ELSE LET next_task == _select_next_task(available)
             rest == ListRemove(available, next_task)
             duration == tasks[next_task].duration_minutes
             reasoning == _generate_reasoning(next_task, SubSeq(available, 1,
                              IF Len(available) < 3 THEN Len(available) ELSE 3))
         IN IF ~_can_fit_task(next_task, remaining)
            THEN GreedyLoop(rest, time, remaining, index,
                            [s EXCEPT !.unscheduled_tasks = Append(@, next_task)])
            ELSE GreedyLoop(rest, AddMinutes(time, duration), remaining - duration, index + 1,
                            [s EXCEPT !.scheduled_tasks =
                                Append(@, ScheduledTask(next_task, time, index, reasoning))])

\* calculate_total_time and calculate_utilization on the Schedule s
WithTotals(s) ==
    LET s1 == [s EXCEPT !.total_time_minutes = calculate_total_time(s)]
        u == calculate_utilization(s1, available_time_minutes)
    IN IF u.raised THEN s1 ELSE [s1 EXCEPT !.utilization_percentage = u.value]

\* scheduler.generate_schedule() as one value
generate_schedule ==
    LET sorted == SortedByPriority(get_all_tasks)
    IN IF sorted = <<>> THEN NewSchedule
       ELSE IF available_time_minutes <= 0 THEN WithTotals(NoTimeSchedule(sorted))
       ELSE WithTotals(GreedyLoop(sorted, StartOfDay, available_time_minutes, 0, NewSchedule))

Next ==
    \/ \E name \in PetNames : add_pet(name)
    \/ \E p \in DOMAIN pets, in \in TaskInputs : add_task(p, in)
    \/ generate_schedule_begin
    \/ RejectTask
    \/ ScheduleTask
    \/ generate_schedule_end

Spec == Init /\ [][Next]_vars

(***************************************************************************)
(* A caller builds a Schedule by hand from ScheduledTask objects and calls *)
(* the conflict checks on it                                               *)
(***************************************************************************)
InitHand ==
    /\ available_time_minutes = 0
    /\ pets = <<>>
    /\ tasks = <<>>
    /\ pc = "hand"
    /\ Idle
    /\ schedule = NewSchedule
    /\ conflict_check = None
    /\ preferences = OwnerPreferences(<<>>, LOW, FALSE)
    /\ priority_weights = DefaultWeights
    /\ previous_run = None
    /\ last_call = None

\* schedule.scheduled_tasks.append(ScheduledTask(Task(...), time, index))
hand_build(scheduled_time, duration) ==
    /\ pc = "hand"
    /\ Len(schedule.scheduled_tasks) < MaxHandBuilt
    /\ tasks' = Append(tasks, Task("Task" \o Digit(Len(tasks) + 1), duration, HIGH, "walk",
                                   NoFrequency))
    /\ schedule' = [schedule EXCEPT !.scheduled_tasks =
                       Append(@, ScheduledTask(Len(tasks) + 1, scheduled_time, Len(@), NoReasoning))]
    /\ conflict_check' = None
    /\ last_call' = None
    /\ UNCHANGED <<available_time_minutes, pets, pc, available_tasks, current_time,
                   remaining_time, order_index,
                   preferences, priority_weights, previous_run>>

\* schedule.scheduled_tasks[i].conflicts_with(schedule.scheduled_tasks[j]) on
\* two of the ScheduledTasks
call_conflicts_with(i, j) ==
    /\ pc = "hand"
    /\ i # j
    /\ conflict_check' =
           [self |-> i, other |-> j,
            result |-> conflicts_with(schedule.scheduled_tasks[i], schedule.scheduled_tasks[j])]
    /\ last_call' = None
    /\ UNCHANGED <<available_time_minutes, pets, tasks, pc, available_tasks, current_time,
                   remaining_time, order_index, schedule,
                   preferences, priority_weights, previous_run>>

\* schedule.validate() on a hand-built or a returned Schedule: the caller
\* keeps the Schedule as it was passed and what came back
call_validate ==
    /\ pc \in {"hand", "done"}
    /\ last_call' = [op |-> "validate", self |-> schedule, result |-> validate(schedule)]
    /\ conflict_check' = None
    /\ UNCHANGED <<available_time_minutes, pets, tasks, pc, available_tasks, current_time,
                   remaining_time, order_index, schedule,
                   preferences, priority_weights, previous_run>>

\* schedule.detect_conflicts()
call_detect_conflicts ==
    /\ pc \in {"hand", "done"}
    /\ last_call' = [op |-> "detect_conflicts", self |-> schedule,
                     result |-> detect_conflicts(schedule)]
    /\ conflict_check' = None
    /\ UNCHANGED <<available_time_minutes, pets, tasks, pc, available_tasks, current_time,
                   remaining_time, order_index, schedule,
                   preferences, priority_weights, previous_run>>

NextHand ==
    \/ \E t \in HandTimes, d \in HandDurations : hand_build(t, d)
    \/ \E i, j \in DOMAIN schedule.scheduled_tasks : call_conflicts_with(i, j)
    \/ call_validate
    \/ call_detect_conflicts

SpecHand == InitHand /\ [][NextHand]_vars

(***************************************************************************)
(* The life cycle of tasks and pets: a caller adds and removes them and    *)
(* marks tasks complete, then generates a schedule                         *)
(***************************************************************************)
InitLife ==
    /\ available_time_minutes \in LifeBudgets
    /\ pets = <<>>
    /\ tasks = <<>>
    /\ pc = "idle"
    /\ Idle
    /\ schedule = None
    /\ conflict_check = None
    /\ preferences = OwnerPreferences(<<>>, LOW, FALSE)
    /\ priority_weights = DefaultWeights
    /\ previous_run = None
    /\ last_call = None

\* pet.add_task(t) with a Task object the caller already holds, such as the
\* one mark_complete returned
add_task_again(p, t) ==
    /\ pc = "idle"
    /\ Len(get_all_tasks) < MaxLifeTasks
    /\ pets' = [pets EXCEPT ![p].tasks = Append(@, t)]
    /\ UNCHANGED <<available_time_minutes, tasks, pc, available_tasks, current_time,
                   remaining_time, order_index, schedule, conflict_check,
                   callerVars>>

\* a removal without the membership test: list.remove raises ValueError
remove_task_unguarded(p, t) ==
    /\ pc = "idle"
    /\ IF Contains(pets[p].tasks, t)
       THEN pets' = [pets EXCEPT ![p].tasks = ListRemove(@, t)] /\ pc' = pc
       ELSE pets' = pets /\ pc' = "error"
    /\ last_call' = [op |-> "remove_task", self |-> p, arg |-> t,
                     found |-> Contains(pets[p].tasks, t)]
    /\ UNCHANGED <<available_time_minutes, tasks, available_tasks, current_time,
                   remaining_time, order_index, schedule, conflict_check,
                   preferences, priority_weights, previous_run>>

\* pets[p].remove_task(t); the caller notes what `t in self.tasks` was
remove_task(p, t) ==
    /\ pc = "idle"
    /\ pets' = IF Contains(pets[p].tasks, t)
               THEN [pets EXCEPT ![p].tasks = ListRemove(@, t)]
               ELSE pets
    /\ last_call' = [op |-> "remove_task", self |-> p, arg |-> t,
                     found |-> Contains(pets[p].tasks, t)]
    /\ UNCHANGED <<available_time_minutes, tasks, pc, available_tasks, current_time,
                   remaining_time, order_index, schedule, conflict_check,
                   preferences, priority_weights, previous_run>>

\* a == b of two Pets: the dataclass compares the fields, the task lists
\* element by element
PetEq(a, b) ==
    /\ a.name = b.name
    /\ Len(a.tasks) = Len(b.tasks)
    /\ \A i \in DOMAIN a.tasks :
           a.tasks[i] = b.tasks[i] \/ tasks[a.tasks[i]] = tasks[b.tasks[i]]

\* pet in self.pets
PetIn(pet) == \E i \in DOMAIN pets : PetEq(pets[i], pet)

\* self.pets.remove(pet): drops the first Pet equal to pet
PetsRemove(pet) ==
    LET i == CHOOSE k \in DOMAIN pets :
                 PetEq(pets[k], pet) /\ \A j \in 1..(k - 1) : ~PetEq(pets[j], pet)
    IN SubSeq(pets, 1, i - 1) \o SubSeq(pets, i + 1, Len(pets))

\* owner.remove_pet(pet)
remove_pet(pet) ==
    /\ pc = "idle"
    /\ pets' = IF PetIn(pet) THEN PetsRemove(pet) ELSE pets
    /\ last_call' = [op |-> "remove_pet", arg |-> pet, found |-> PetIn(pet)]
    /\ UNCHANGED <<available_time_minutes, tasks, pc, available_tasks, current_time,
                   remaining_time, order_index, schedule, conflict_check,
                   preferences, priority_weights, previous_run>>

\* the Pets a caller passes to remove_pet: one of the owner's, or one it has
\* just constructed
PetArguments == {pets[i] : i \in DOMAIN pets} \cup {Pet(name) : name \in PetNames}

\* a completion that flips the flag
MarkedToggled(t) == [tasks EXCEPT ![t].is_completed = ~@]

\* self.is_completed = True
MarkedComplete(t) == [tasks EXCEPT ![t].is_completed = TRUE]

\* a test that takes a task for recurring only until it is completed
IsRecurringIncomplete(t) == tasks[t].frequency # "once" /\ ~tasks[t].is_completed

\* a test that takes only DAILY for recurring
IsRecurringDaily(t) == tasks[t].frequency = "daily"

\* self.frequency != TaskFrequency.ONCE
IsRecurring(t) == tasks[t].frequency # "once"

\* a next occurrence built without the frequency
NextOccurrenceOnce(t) ==
    Task(tasks[t].title, tasks[t].duration_minutes, tasks[t].priority, tasks[t].category,
         NoFrequency)

\* the Task(...) mark_complete builds for the next occurrence
NextOccurrence(t) ==
    [title |-> tasks[t].title,
     duration_minutes |-> tasks[t].duration_minutes,
     priority |-> tasks[t].priority,
     category |-> tasks[t].category,
     description |-> tasks[t].description,
     frequency |-> tasks[t].frequency,
     is_completed |-> FALSE]

\* tasks[t].mark_complete(); the caller holds what it returned.  The frame of
\* the call is MarkFrame.
MarkFrame ==
    UNCHANGED <<available_time_minutes, pc, available_tasks, current_time,
                remaining_time, order_index, schedule, conflict_check,
                preferences, priority_weights, previous_run>>

MarkEffect(t) ==
    IF IsRecurring(t)
    THEN /\ tasks' = Append(MarkedComplete(t), NextOccurrence(t))
         /\ last_call' = [op |-> "mark_complete", self |-> t, result |-> Len(tasks) + 1]
    ELSE /\ tasks' = MarkedComplete(t)
         /\ last_call' = [op |-> "mark_complete", self |-> t, result |-> NoTask]

\* a completion that also puts the next occurrence into the pets holding t
mark_complete_inserting(t) ==
    /\ pc \in {"idle", "done"}
    /\ MarkEffect(t)
    /\ pets' = [p \in DOMAIN pets |->
                   IF IsRecurring(t) /\ \E i \in DOMAIN pets[p].tasks : pets[p].tasks[i] = t
                   THEN [pets[p] EXCEPT !.tasks = Append(@, Len(tasks) + 1)]
                   ELSE pets[p]]
    /\ MarkFrame

\* a mark_complete on a Schedule's ScheduledTasks and unscheduled tasks too
mark_complete_rescheduling(t) ==
    /\ pc \in {"idle", "done"}
    /\ MarkEffect(t)
    /\ pets' = pets
    /\ schedule' = IF schedule = None \/ ~IsRecurring(t) THEN schedule
                   ELSE [schedule EXCEPT !.unscheduled_tasks = Append(@, Len(tasks) + 1)]
    /\ UNCHANGED <<available_time_minutes, pc, available_tasks, current_time,
                   remaining_time, order_index, conflict_check,
                   preferences, priority_weights, previous_run>>

\* task.mark_complete(), before a schedule is generated or on a task of an
\* owner whose schedule was returned
mark_complete(t) ==
    /\ pc \in {"idle", "done"}
    /\ MarkEffect(t)
    /\ pets' = pets
    /\ MarkFrame

NextLife ==
    \/ \E name \in LifePetNames : add_pet(name)
    \/ \E p \in DOMAIN pets, in \in LifeInputs : Len(tasks) < MaxLifeTasks /\ add_task(p, in)
    \/ \E p \in DOMAIN pets, t \in DOMAIN tasks : add_task_again(p, t)
    \/ \E p \in DOMAIN pets, t \in DOMAIN tasks : remove_task(p, t)
    \/ \E pet \in PetArguments : remove_pet(pet)
    \/ \E t \in DOMAIN tasks :
           (IsRecurring(t) => Len(tasks) < MaxLifeTasks) /\ mark_complete(t)
    \/ generate_schedule_begin
    \/ RejectTask
    \/ ScheduleTask
    \/ generate_schedule_end
    \/ call_validate
    \/ call_detect_conflicts

SpecLife == InitLife /\ [][NextLife]_vars

\* a caller marks tasks complete again and again, the occurrences too
NextRecur ==
    \/ \E name \in LifePetNames : add_pet(name)
    \/ \E p \in DOMAIN pets, in \in LifeInputs : Len(tasks) < MaxRecurTasks /\ add_task(p, in)
    \/ \E t \in DOMAIN tasks :
           (IsRecurring(t) => Len(tasks) < MaxRecurTasks) /\ mark_complete(t)

SpecRecur == InitLife /\ [][NextRecur]_vars

(***************************************************************************)
(* A caller generates a schedule, keeps it, configures the owner and a new *)
(* scheduler, and generates again                                          *)
(***************************************************************************)
InitRegen ==
    /\ available_time_minutes \in RegenBudgets
    /\ pets = <<>>
    /\ tasks = <<>>
    /\ pc = "idle"
    /\ Idle
    /\ schedule = None
    /\ conflict_check = None
    /\ \E c \in Configurations :
           /\ preferences = OwnerPreferences(c.preferred_task_order, c.priority_threshold,
                                            c.group_similar_tasks)
           /\ priority_weights = c.priority_weights
    /\ previous_run = None
    /\ last_call = None

\* what the caller keeps of a returned schedule and of what it was made from
Run ==
    [schedule |-> schedule, pets |-> pets, tasks |-> tasks,
     available_time_minutes |-> available_time_minutes,
     preferences |-> preferences, priority_weights |-> priority_weights]

\* owner.preferences = OwnerPreferences(...);
\* PriorityGreedyScheduler(owner, date, priority_weights), after a schedule
\* was returned
new_scheduler(c) ==
    /\ pc = "done"
    /\ previous_run = None
    /\ previous_run' = Run
    /\ preferences' = OwnerPreferences(c.preferred_task_order, c.priority_threshold,
                                       c.group_similar_tasks)
    /\ priority_weights' = c.priority_weights
    /\ schedule' = None
    /\ pc' = "idle"
    /\ UNCHANGED <<available_time_minutes, pets, tasks, available_tasks, current_time,
                   remaining_time, order_index, conflict_check, last_call>>

NextRegen ==
    \/ \E name \in PetNames : add_pet(name)
    \/ \E p \in DOMAIN pets, in \in RegenInputs : Len(tasks) < MaxLifeTasks /\ add_task(p, in)
    \/ generate_schedule_begin
    \/ RejectTask
    \/ ScheduleTask
    \/ generate_schedule_end
    \/ \E c \in Configurations : new_scheduler(c)

SpecRegen == InitRegen /\ [][NextRegen]_vars

\* a caller generates, marks tasks complete before or after, and generates
\* again with a new scheduler
NextRemark ==
    \/ \E name \in LifePetNames : add_pet(name)
    \/ \E p \in DOMAIN pets, in \in LifeInputs : Len(tasks) < MaxLifeTasks /\ add_task(p, in)
    \/ \E t \in DOMAIN tasks :
           (IsRecurring(t) => Len(tasks) < MaxLifeTasks) /\ mark_complete(t)
    \/ generate_schedule_begin
    \/ RejectTask
    \/ ScheduleTask
    \/ generate_schedule_end
    \/ \E c \in Configurations : new_scheduler(c)

SpecRemark == InitLife /\ [][NextRemark]_vars

(***************************************************************************)
(* A caller computes the totals of a hand-built Schedule and asks for its  *)
(* conflicts; last_call is the latest call (its arguments, the Schedule it *)
(* was made on, what it returned and the Schedule after it), previous_run  *)
(* the call before it                                                      *)
(***************************************************************************)
\* schedule.calculate_total_time()
call_calculate_total_time ==
    /\ pc = "hand"
    /\ schedule' = [schedule EXCEPT !.total_time_minutes = calculate_total_time(schedule)]
    /\ last_call' = [op |-> "calculate_total_time", args |-> <<>>, self |-> schedule,
                     result |-> calculate_total_time(schedule), after |-> schedule']
    /\ previous_run' = last_call
    /\ conflict_check' = None
    /\ UNCHANGED <<available_time_minutes, pets, tasks, pc, available_tasks, current_time,
                   remaining_time, order_index, preferences, priority_weights>>

\* schedule.calculate_utilization(available_time)
call_calculate_utilization(available_time) ==
    /\ pc = "hand"
    /\ LET r == calculate_utilization(schedule, available_time)
       IN /\ pc' = IF r.raised THEN "error" ELSE pc
          /\ schedule' = IF r.raised THEN schedule
                         ELSE [schedule EXCEPT !.utilization_percentage = r.value]
          /\ last_call' = [op |-> "calculate_utilization", args |-> <<available_time>>,
                           self |-> schedule, result |-> r, after |-> schedule']
    /\ previous_run' = last_call
    /\ conflict_check' = None
    /\ UNCHANGED <<available_time_minutes, pets, tasks, available_tasks, current_time,
                   remaining_time, order_index, preferences, priority_weights>>

NextTotals ==
    \/ \E e \in TotalsEntries : hand_build(e.scheduled_time, e.duration)
    \/ call_calculate_total_time
    \/ \E b \in TotalsBudgets : call_calculate_utilization(b)
    \/ call_detect_conflicts

SpecTotals == InitHand /\ [][NextTotals]_vars

(***************************************************************************)
(* The Streamlit app: st.session_state.owner and .current_schedule, and    *)
(* one action for each button.  `schedule` is current_schedule; there is   *)
(* no Owner object, and so no OwnerPreferences, while preferences is None  *)
(***************************************************************************)
OwnerExists == preferences # None

InitApp ==
    /\ available_time_minutes = 0
    /\ pets = <<>>
    /\ tasks = <<>>
    /\ pc = "idle"
    /\ Idle
    /\ schedule = None
    /\ conflict_check = None
    /\ preferences = None
    /\ priority_weights = DefaultWeights
    /\ previous_run = None
    /\ last_call = None

AppFrame ==
    UNCHANGED <<available_tasks, current_time, remaining_time, order_index, conflict_check,
                priority_weights, previous_run, last_call>>

\* "Create/Update Owner": a new Owner without pets; the objects of the Owner
\* before it are no longer referenced
app_create_owner(budget) ==
    /\ available_time_minutes' = budget
    /\ preferences' = OwnerPreferences(<<>>, LOW, FALSE)
    /\ pets' = <<>>
    /\ tasks' = <<>>
    /\ schedule' = None
    /\ pc' = "idle"
    /\ AppFrame

\* "Add Pet"
app_add_pet(name) ==
    /\ OwnerExists
    /\ Len(pets) < MaxAppPets
    /\ pets' = Append(pets, Pet(name))
    /\ schedule' = None
    /\ pc' = "idle"
    /\ UNCHANGED <<available_time_minutes, tasks, preferences>>
    /\ AppFrame

\* "Remove" next to the pet at position idx
app_remove_pet(idx) ==
    /\ OwnerExists
    /\ idx \in DOMAIN pets
    /\ pets' = IF PetIn(pets[idx]) THEN PetsRemove(pets[idx]) ELSE pets
    /\ schedule' = None
    /\ pc' = "idle"
    /\ UNCHANGED <<available_time_minutes, tasks, preferences>>
    /\ AppFrame

\* the pet the select box stands for: the first one with the name
SelectedPet(name) ==
    CHOOSE p \in DOMAIN pets :
        pets[p].name = name /\ \A q \in 1..(p - 1) : pets[q].name # name

\* "Add Task" for the pet selected by its name
app_add_task(name, in) ==
    /\ OwnerExists
    /\ \E p \in DOMAIN pets : pets[p].name = name
    /\ Len(tasks) < MaxAppTasks
    /\ tasks' = Append(tasks, Task(in.title, in.duration_minutes, in.priority, in.category,
                                   in.frequency))
    /\ pets' = [pets EXCEPT ![SelectedPet(name)].tasks = Append(@, Len(tasks) + 1)]
    /\ schedule' = None
    /\ pc' = "idle"
    /\ UNCHANGED <<available_time_minutes, preferences>>
    /\ AppFrame

\* a "Remove" of a task that leaves the stored schedule
app_remove_task_keeping_schedule(p, i) ==
    /\ OwnerExists
    /\ p \in DOMAIN pets
    /\ i \in DOMAIN pets[p].tasks
    /\ pets' = [pets EXCEPT ![p].tasks = ListRemove(@, pets[p].tasks[i])]
    /\ UNCHANGED <<available_time_minutes, tasks, preferences, schedule, pc>>
    /\ AppFrame

\* "Remove" next to the i-th task of pet p
app_remove_task(p, i) ==
    /\ OwnerExists
    /\ p \in DOMAIN pets
    /\ i \in DOMAIN pets[p].tasks
    /\ pets' = [pets EXCEPT ![p].tasks =
                    IF Contains(@, pets[p].tasks[i]) THEN ListRemove(@, pets[p].tasks[i]) ELSE @]
    /\ schedule' = None
    /\ pc' = "idle"
    /\ UNCHANGED <<available_time_minutes, tasks, preferences>>
    /\ AppFrame

\* "Generate Schedule": the button is drawn when there is an owner, a pet
\* and a task
app_generate ==
    /\ OwnerExists
    /\ Len(pets) > 0
    /\ Len(get_all_tasks) > 0
    /\ schedule' = generate_schedule
    /\ pc' = "done"
    /\ UNCHANGED <<available_time_minutes, pets, tasks, preferences>>
    /\ AppFrame

NextApp ==
    \/ \E budget \in AppBudgets : app_create_owner(budget)
    \/ \E name \in AppPetNames : app_add_pet(name)
    \/ \E idx \in DOMAIN pets : app_remove_pet(idx)
    \/ \E name \in AppPetNames, in \in AppInputs : app_add_task(name, in)
    \/ \E p \in DOMAIN pets : \E i \in DOMAIN pets[p].tasks : app_remove_task(p, i)
    \/ app_generate

SpecApp == InitApp /\ [][NextApp]_vars

(***************************************************************************)
(* The owners of the tests: one pet, a schedule generated once             *)
(***************************************************************************)
InitScenario ==
    /\ available_time_minutes \in ScenarioBudgets
    /\ pets = <<>>
    /\ tasks = <<>>
    /\ pc = "idle"
    /\ Idle
    /\ schedule = None
    /\ conflict_check = None
    /\ preferences = OwnerPreferences(<<>>, LOW, FALSE)
    /\ priority_weights = DefaultWeights
    /\ previous_run = None
    /\ last_call = None

NextScenario ==
    \/ \E name \in LifePetNames : add_pet(name)
    \/ \E p \in DOMAIN pets, in \in ScenarioInputs : add_task(p, in)
    \/ generate_schedule_begin
    \/ RejectTask
    \/ ScheduleTask
    \/ generate_schedule_end

SpecScenario == InitScenario /\ [][NextScenario]_vars

\* generate_schedule is one sequential call: once it has begun, its loop
\* takes its next step until the call returns
GenerateStep == RejectTask \/ ScheduleTask \/ generate_schedule_end

SpecFair == InitScenario /\ [][NextScenario]_vars /\ WF_vars(GenerateStep)

(***************************************************************************)
(* A caller builds an owner, marks tasks complete and asks for the tasks:  *)
(* aggregated, sorted and filtered                                         *)
(***************************************************************************)
\* none of the queries assigns to anything: each builds and returns a new list
QueryFrame ==
    UNCHANGED <<available_time_minutes, pets, tasks, pc, available_tasks, current_time,
                remaining_time, order_index, schedule, conflict_check,
                preferences, priority_weights, previous_run>>

call_get_all_tasks ==
    /\ pc = "idle"
    /\ last_call' = [op |-> "get_all_tasks", result |-> get_all_tasks]
    /\ QueryFrame

call_get_tasks_sorted_by_priority ==
    /\ pc = "idle"
    /\ last_call' = [op |-> "get_tasks_sorted_by_priority",
                     result |-> get_tasks_sorted_by_priority]
    /\ QueryFrame

call_get_tasks_sorted_by_time ==
    /\ pc = "idle"
    /\ last_call' = [op |-> "get_tasks_sorted_by_time", result |-> get_tasks_sorted_by_time]
    /\ QueryFrame

call_get_tasks_by_priority(p, priority) ==
    /\ pc = "idle"
    /\ last_call' = [op |-> "get_tasks_by_priority", self |-> p, arg |-> priority,
                     result |-> get_tasks_by_priority(p, priority)]
    /\ QueryFrame

call_get_tasks_by_category(p, category) ==
    /\ pc = "idle"
    /\ last_call' = [op |-> "get_tasks_by_category", self |-> p, arg |-> category,
                     result |-> get_tasks_by_category(p, category)]
    /\ QueryFrame

call_get_tasks_by_completion(p, completed) ==
    /\ pc = "idle"
    /\ last_call' = [op |-> "get_tasks_by_completion", self |-> p, arg |-> completed,
                     result |-> get_tasks_by_completion(p, completed)]
    /\ QueryFrame

call_get_incomplete_tasks(p) ==
    /\ pc = "idle"
    /\ last_call' = [op |-> "get_incomplete_tasks", self |-> p,
                     result |-> get_incomplete_tasks(p)]
    /\ QueryFrame

call_Owner_get_incomplete_tasks ==
    /\ pc = "idle"
    /\ last_call' = [op |-> "Owner.get_incomplete_tasks",
                     result |-> Owner_get_incomplete_tasks]
    /\ QueryFrame

\* the caller has started to ask
Asked == last_call # None /\ last_call.op # "mark_complete"

\* the caller builds the owner first and asks then
NextQuery ==
    \/ \E name \in PetNames : ~Asked /\ add_pet(name)
    \/ \E p \in DOMAIN pets, in \in QueryInputs :
           ~Asked /\ Len(tasks) < MaxQueryTasks /\ add_task(p, in)
    \/ \E t \in DOMAIN tasks : ~Asked /\ mark_complete(t)
    \/ call_get_all_tasks
    \/ call_get_tasks_sorted_by_priority
    \/ call_get_tasks_sorted_by_time
    \/ \E p \in DOMAIN pets, priority \in QueryPriorities : call_get_tasks_by_priority(p, priority)
    \/ \E p \in DOMAIN pets, category \in QueryCategories : call_get_tasks_by_category(p, category)
    \/ \E p \in DOMAIN pets, completed \in BOOLEAN : call_get_tasks_by_completion(p, completed)
    \/ \E p \in DOMAIN pets : call_get_incomplete_tasks(p)
    \/ call_Owner_get_incomplete_tasks

SpecQuery == InitLife /\ [][NextQuery]_vars

(***************************************************************************)
(* Properties of generate_schedule                                         *)
(***************************************************************************)
\* generate_schedule has returned: `schedule` is its result and the owner is
\* as the call read it
Returned == pc = "done"

AllTasks == get_all_tasks

PositiveDurations == \A i \in DOMAIN AllTasks : tasks[AllTasks[i]].duration_minutes > 0

ScheduledRefs == [i \in DOMAIN schedule.scheduled_tasks |-> schedule.scheduled_tasks[i].task]

Occurrences(lst, t) == Cardinality({i \in DOMAIN lst : lst[i] = t})

\* position of the Task object t in the aggregation order
AggregationIndex(t) == CHOOSE i \in DOMAIN AllTasks : AllTasks[i] = t

\* descending priority, equal priorities in aggregation order
PriorityOrdered(lst) ==
    \A i, j \in DOMAIN lst :
        i < j =>
            \/ tasks[lst[i]].priority > tasks[lst[j]].priority
            \/ /\ tasks[lst[i]].priority = tasks[lst[j]].priority
               /\ AggregationIndex(lst[i]) < AggregationIndex(lst[j])

\* C1: for a non-negative budget of any size and tasks of positive duration,
\* the schedule generate_schedule returns passes validate(): no two of its
\* ScheduledTasks conflict.
C1_GeneratedScheduleIsValid ==
    (Returned /\ available_time_minutes >= 0 /\ PositiveDurations) => validate(schedule)

\* C2: the scheduled tasks of a returned schedule are in descending priority
\* order, tasks of equal priority in the order of Owner.get_all_tasks().
C2_ScheduledInPriorityOrder == Returned => PriorityOrdered(ScheduledRefs)

C2_Witness ==
    /\ Returned
    /\ \E i, j \in DOMAIN ScheduledRefs :
           /\ i < j
           /\ tasks[ScheduledRefs[i]].priority = tasks[ScheduledRefs[j]].priority
           /\ tasks[ScheduledRefs[i]] # tasks[ScheduledRefs[j]]
           /\ ScheduledRefs[i] > ScheduledRefs[j]
    /\ \E i, j \in DOMAIN ScheduledRefs :
           tasks[ScheduledRefs[i]].priority > tasks[ScheduledRefs[j]].priority

\* C3: with a positive budget and tasks of positive duration the remaining
\* budget is never negative during the loop, and the returned schedule has
\* total_time_minutes <= available_time_minutes and a utilization within
\* 0 .. 100 percent.
C3_WithinBudget ==
    (available_time_minutes > 0 /\ PositiveDurations) =>
        /\ pc = "loop" => remaining_time >= 0
        /\ Returned =>
               /\ schedule.total_time_minutes <= available_time_minutes
               /\ schedule.utilization_percentage >= 0
               /\ schedule.utilization_percentage <= 10000

C3_Witness ==
    /\ Returned
    /\ available_time_minutes > 0
    /\ PositiveDurations
    /\ Len(schedule.scheduled_tasks) >= 2
    /\ schedule.unscheduled_tasks # <<>>
    /\ schedule.total_time_minutes = available_time_minutes

\* C4: when generate_schedule returns, every task of get_all_tasks() is in
\* exactly one of scheduled_tasks and unscheduled_tasks, exactly once, and
\* the two lists hold nothing else.
C4_EveryTaskExactlyOnce ==
    Returned =>
        LET placed == ScheduledRefs \o schedule.unscheduled_tasks
        IN /\ Len(placed) = Len(AllTasks)
           /\ \A i \in DOMAIN AllTasks : Occurrences(placed, AllTasks[i]) = 1

C4_Witness ==
    /\ Returned
    /\ schedule.scheduled_tasks # <<>>
    /\ schedule.unscheduled_tasks # <<>>
    /\ \E i, j \in DOMAIN AllTasks : i # j /\ tasks[AllTasks[i]] = tasks[AllTasks[j]]

\* C5: for tasks of positive duration every unscheduled task of a returned
\* schedule is longer than the budget left over; during the loop the
\* remaining budget and the cursor account for the scheduled tasks alone, so
\* a rejected task consumed no budget and did not move the cursor.
C5_GreedyMaximal ==
    PositiveDurations =>
        /\ Returned =>
               \A i \in DOMAIN schedule.unscheduled_tasks :
                   tasks[schedule.unscheduled_tasks[i]].duration_minutes
                       > available_time_minutes - schedule.total_time_minutes
        /\ pc = "loop" =>
               /\ remaining_time = available_time_minutes - calculate_total_time(schedule)
               /\ current_time = AddMinutes(StartOfDay, calculate_total_time(schedule))

\* a task was rejected and a smaller task of lower priority was scheduled
C5_Witness ==
    /\ Returned
    /\ PositiveDurations
    /\ \E i \in DOMAIN schedule.unscheduled_tasks, j \in DOMAIN ScheduledRefs :
           /\ tasks[schedule.unscheduled_tasks[i]].priority > tasks[ScheduledRefs[j]].priority
           /\ tasks[schedule.unscheduled_tasks[i]].duration_minutes
                  > tasks[ScheduledRefs[j]].duration_minutes

\* C6: with a budget <= 0 and at least one task, the returned schedule has
\* no scheduled task, every aggregated task unscheduled, total time 0 and
\* utilization 0.
C6_NoTimeAvailable ==
    (Returned /\ available_time_minutes <= 0 /\ AllTasks # <<>>) =>
        /\ schedule.scheduled_tasks = <<>>
        /\ Len(schedule.unscheduled_tasks) = Len(AllTasks)
        /\ \A i \in DOMAIN AllTasks :
               Occurrences(schedule.unscheduled_tasks, AllTasks[i]) = 1
        /\ schedule.total_time_minutes = 0
        /\ schedule.utilization_percentage = 0

C6_Witness ==
    /\ Returned
    /\ available_time_minutes < 0
    /\ Len(AllTasks) >= 2

\* C7: for an owner without any task (with or without pets), whatever the
\* budget, the returned schedule has empty scheduled and unscheduled lists,
\* total time 0 and utilization 0.
C7_NoTasks ==
    (Returned /\ AllTasks = <<>>) =>
        /\ schedule.scheduled_tasks = <<>>
        /\ schedule.unscheduled_tasks = <<>>
        /\ schedule.total_time_minutes = 0
        /\ schedule.utilization_percentage = 0

C7_Witness ==
    /\ Returned
    /\ AllTasks = <<>>
    /\ pets # <<>>
    /\ available_time_minutes > 0

C9_NoMalformedData ==
    /\ available_time_minutes >= 0
    /\ \A t \in DOMAIN tasks : tasks[t].duration_minutes > 0

(***************************************************************************)
(* Properties of ScheduledTask.conflicts_with                              *)
(***************************************************************************)
\* the interval [start, start + duration) of a ScheduledTask, in minutes from
\* the midnight before its start
IntervalStart(st) == st.scheduled_time
IntervalEnd(st) == st.scheduled_time + tasks[st.task].duration_minutes

IntervalsOverlap(a, b) ==
    IntervalStart(a) < IntervalEnd(b) /\ IntervalStart(b) < IntervalEnd(a)

CheckedSelf == schedule.scheduled_tasks[conflict_check.self]
CheckedOther == schedule.scheduled_tasks[conflict_check.other]

\* C10: for any two ScheduledTasks with positive durations, also when one
\* passes midnight, a.conflicts_with(b) is true exactly when
\* [start_a, start_a + duration_a) and [start_b, start_b + duration_b)
\* overlap; back-to-back tasks do not conflict and the relation is symmetric.
C10_ConflictIffOverlap ==
    conflict_check # None =>
        /\ conflict_check.result = IntervalsOverlap(CheckedSelf, CheckedOther)
        /\ conflict_check.result = conflicts_with(CheckedOther, CheckedSelf)
        /\ IntervalEnd(CheckedSelf) = IntervalStart(CheckedOther) => ~conflict_check.result

(***************************************************************************)
(* Properties of Schedule.validate and Schedule.detect_conflicts           *)
(***************************************************************************)
Called(op) == last_call # None /\ last_call.op = op

\* the step is a call of op
Calls(op) == last_call' # None /\ last_call'.op = op

NoTwoOverlap(s) ==
    \A i, j \in DOMAIN s.scheduled_tasks :
        i < j => ~IntervalsOverlap(s.scheduled_tasks[i], s.scheduled_tasks[j])

Reordered(s, perm) ==
    [s EXCEPT !.scheduled_tasks = [k \in DOMAIN @ |-> @[perm[k]]]]

\* C11: validate() returns true exactly when no two entries of the list have
\* overlapping [start, end) intervals, and it returns the same for every
\* order of the entries.
C11_ValidateIffNoOverlap ==
    Called("validate") =>
        /\ last_call.result = NoTwoOverlap(last_call.self)
        /\ \A perm \in Permutations(DOMAIN last_call.self.scheduled_tasks) :
               validate(Reordered(last_call.self, perm)) = last_call.result

ConflictingPairs(s) ==
    {pair \in (DOMAIN s.scheduled_tasks) \X (DOMAIN s.scheduled_tasks) :
        /\ pair[1] < pair[2]
        /\ conflicts_with(s.scheduled_tasks[pair[1]], s.scheduled_tasks[pair[2]])}

\* the positions of the records of `result` that name the entry at position i
\* as task1 and the entry at position j as task2 (hand-built titles differ
\* from entry to entry)
RecordsOf(result, s, i, j) ==
    {k \in DOMAIN result :
        /\ result[k].task1 = tasks[s.scheduled_tasks[i].task].title
        /\ result[k].task2 = tasks[s.scheduled_tasks[j].task].title}

\* C12: detect_conflicts() returns exactly one record for each pair of
\* positions i < j whose ScheduledTasks conflict, task1 being the entry at
\* the earlier position, and no other record; it returns the empty list
\* exactly when validate() returns true, and the schedule is as it was.
C12_OneRecordPerConflictingPair ==
    Called("detect_conflicts") =>
        LET s == last_call.self
            result == last_call.result
        IN /\ \A i, j \in DOMAIN s.scheduled_tasks :
                  /\ Cardinality(RecordsOf(result, s, i, j))
                         = IF <<i, j>> \in ConflictingPairs(s) THEN 1 ELSE 0
                  /\ \A k \in RecordsOf(result, s, i, j) :
                         /\ result[k].task1_time = TimeWindow(s.scheduled_tasks[i])
                         /\ result[k].task2_time = TimeWindow(s.scheduled_tasks[j])
           /\ Len(result) = Cardinality(ConflictingPairs(s))
           /\ (result = <<>>) <=> validate(s)
           /\ schedule = s

\* three entries, two pairs of which conflict and one does not
C12_Witness ==
    /\ Called("detect_conflicts")
    /\ Len(last_call.self.scheduled_tasks) = 3
    /\ Len(last_call.result) = 2
    /\ last_call.result[1].task1 = "Task1"
    /\ last_call.result[2].task1_time = "06:15 - 06:45"

(***************************************************************************)
(* Properties of the task life cycle                                       *)
(***************************************************************************)
Completed == last_call.self
Returned_task == last_call.result

\* C13: mark_complete() sets is_completed, and it returns a new Task exactly
\* when the frequency is not ONCE; for ONCE, given or by default, it returns
\* None.
C13_MarkCompleteReturns ==
    Called("mark_complete") =>
        /\ tasks[Completed].is_completed
        /\ (Returned_task # NoTask) <=> (tasks[Completed].frequency \in {"daily", "weekly", "monthly"})
        /\ tasks[Completed].frequency = "once" => Returned_task = NoTask
        /\ Returned_task # NoTask => Returned_task \in DOMAIN tasks

\* a task created without a frequency, or with ONCE, was marked complete
C13_Witness ==
    /\ Called("mark_complete")
    /\ tasks[Completed].title = "Walk"
    /\ tasks[Completed].frequency = "once"
    /\ Returned_task = NoTask

\* C14: for a task whose frequency is not ONCE, the Task mark_complete()
\* returns is another object with the same title, duration, priority,
\* category, description and frequency and with is_completed false, while
\* the original's is_completed is true.
C14_NextOccurrenceEqualFields ==
    (Called("mark_complete") /\ tasks[Completed].frequency # "once") =>
        /\ Returned_task \in DOMAIN tasks
        /\ Returned_task # Completed
        /\ tasks[Returned_task].title = tasks[Completed].title
        /\ tasks[Returned_task].duration_minutes = tasks[Completed].duration_minutes
        /\ tasks[Returned_task].priority = tasks[Completed].priority
        /\ tasks[Returned_task].category = tasks[Completed].category
        /\ tasks[Returned_task].description = tasks[Completed].description
        /\ tasks[Returned_task].frequency = tasks[Completed].frequency
        /\ ~tasks[Returned_task].is_completed
        /\ tasks[Completed].is_completed

C14_Witness ==
    /\ Called("mark_complete")
    /\ tasks[Completed].frequency = "monthly"
    /\ Returned_task = 2
    /\ tasks[2].title = "Groom"

InSomePet(t) == \E p \in DOMAIN pets : \E i \in DOMAIN pets[p].tasks : pets[p].tasks[i] = t

\* C15: a mark_complete() call leaves the owner's pet list and every pet's
\* task list as they were, and the Task it returns is in no pet's list.
C15_MarkCompleteLeavesLists ==
    [][\A t \in DOMAIN tasks :
          (Calls("mark_complete") /\ mark_complete(t)) =>
              /\ pets' = pets
              /\ \A p \in DOMAIN pets' : \A i \in DOMAIN pets'[p].tasks :
                     pets'[p].tasks[i] # last_call'.result]_vars

\* a recurring task of a pet was marked complete; the pet holds the task and
\* not what was returned
C15_Witness ==
    /\ Called("mark_complete")
    /\ Returned_task # NoTask
    /\ InSomePet(Completed)
    /\ ~InSomePet(Returned_task)

\* C16: once a task's is_completed is true, no step sets it back to false.
C16_CompleteIsTerminal ==
    [][\A t \in DOMAIN tasks :
          tasks[t].is_completed => (t \in DOMAIN tasks' /\ tasks'[t].is_completed)]_vars

\* a schedule was generated with a completed task of a pet in it
C16_Witness ==
    /\ pc = "done"
    /\ \E i \in DOMAIN schedule.scheduled_tasks :
           tasks[schedule.scheduled_tasks[i].task].is_completed

Untouched ==
    /\ pc' # "error"
    /\ UNCHANGED <<available_time_minutes, pets, tasks, pc, available_tasks, current_time,
                   remaining_time, order_index, schedule, conflict_check,
                   preferences, priority_weights, previous_run>>

\* C20: remove_task(t) with t not in the pet's tasks, and remove_pet(p) with
\* p not in the owner's pets, raise nothing and leave every list and field
\* as it was.
C20_RemoveAbsentIsNoOp ==
    [][/\ \A p \in DOMAIN pets, t \in DOMAIN tasks :
             (remove_task(p, t) /\ ~Contains(pets[p].tasks, t)) => Untouched
       /\ \A pet \in PetArguments :
             (remove_pet(pet) /\ ~PetIn(pet)) => Untouched]_vars

\* remove_task was called on a pet that holds tasks, with a task it does not
\* hold
C20_Witness ==
    /\ Called("remove_task")
    /\ ~last_call.found
    /\ pc = "idle"
    /\ pets[last_call.self].tasks # <<>>

(***************************************************************************)
(* Properties of the reasoning of a scheduled task                         *)
(***************************************************************************)
\* the ScheduledTask a ScheduleTask step appends
Appended == schedule'.scheduled_tasks[Len(schedule'.scheduled_tasks)]

\* the candidates in the pool at selection time other than the chosen one
OtherCandidates == Len(available_tasks) - 1

\* C19 as stated: the reasoning of a scheduled task has the "chosen over"
\* clause exactly when at least 2 candidates other than the chosen one were
\* in the pool at selection time, and the clause names at most 2 tiers.
C19_ChosenOverIffTwoOthers ==
    [][ScheduleTask =>
          /\ (Appended.reasoning.chosen_over # <<>>) <=> (OtherCandidates >= 2)
          /\ Len(Appended.reasoning.chosen_over) <= 2]_vars

\* C19, amended: the reasoning of a scheduled task has the "chosen over"
\* clause exactly when at least 1 candidate other than the chosen one was in
\* the pool at selection time; the chosen task is the first of the pool and
\* the clause names the priority tiers of the next candidates, at most 2.
C19_ChosenOverIffOneOther ==
    [][ScheduleTask =>
          /\ Appended.task = available_tasks[1]
          /\ (Appended.reasoning.chosen_over # <<>>) <=> (OtherCandidates >= 1)
          /\ Len(Appended.reasoning.chosen_over) <= 2
          /\ Len(Appended.reasoning.chosen_over) = IF OtherCandidates < 2 THEN OtherCandidates ELSE 2
          /\ \A i \in DOMAIN Appended.reasoning.chosen_over :
                 Appended.reasoning.chosen_over[i]
                     = PriorityName(tasks[available_tasks[i + 1]].priority)]_vars

\* the last of three tasks was scheduled alone, the one before it with one
\* other candidate left, the first with two
C19_Witness ==
    /\ pc = "done"
    /\ Len(schedule.scheduled_tasks) = 3
    /\ Len(schedule.scheduled_tasks[1].reasoning.chosen_over) = 2
    /\ schedule.scheduled_tasks[2].reasoning.chosen_over = <<"LOW">>
    /\ schedule.scheduled_tasks[3].reasoning.chosen_over = <<>>

(***************************************************************************)
(* Properties of a second generate_schedule call                           *)
(***************************************************************************)
\* a second call has returned
Regenerated == pc = "done" /\ previous_run # None

SameGraph ==
    /\ previous_run.pets = pets
    /\ previous_run.tasks = tasks
    /\ previous_run.available_time_minutes = available_time_minutes

SameConfiguration ==
    /\ previous_run.preferences = preferences
    /\ previous_run.priority_weights = priority_weights

BelowThreshold(t) == tasks[t].priority < preferences.priority_threshold

AllFit == available_time_minutes > 0 /\ SumSeq([i \in DOMAIN AllTasks |->
                                                  tasks[AllTasks[i]].duration_minutes])
                                           <= available_time_minutes

\* C18: for the same pets, tasks and budget, generate_schedule returns the
\* same schedule whatever the OwnerPreferences and the priority_weights of
\* the scheduler; tasks below priority_threshold are scheduled like the
\* others (all of them when all the tasks fit in the budget).
C18_ConfigurationIsAdvisory ==
    /\ (Regenerated /\ SameGraph) => schedule = previous_run.schedule
    /\ (Returned /\ AllFit /\ PositiveDurations) =>
           \A i \in DOMAIN AllTasks :
               \E k \in DOMAIN schedule.scheduled_tasks :
                   schedule.scheduled_tasks[k].task = AllTasks[i]

\* the second call ran with another weights table, the owner has a threshold
\* of HIGH, and a LOW task is scheduled after a CRITICAL one as before
C18_Witness ==
    /\ Regenerated
    /\ SameGraph
    /\ previous_run.priority_weights # priority_weights
    /\ Len(schedule.scheduled_tasks) = 2
    /\ tasks[schedule.scheduled_tasks[1].task].priority = CRITICAL
    /\ BelowThreshold(schedule.scheduled_tasks[2].task)

(***************************************************************************)
(* Properties of Pet.remove_task                                           *)
(***************************************************************************)
\* C21: after pets[p].remove_task(t) returns, t is not a member of the pet's
\* tasks, membership being judged by Task equality, whatever was added and
\* removed before.
C21_RemovedIsAbsent ==
    [][\A p \in DOMAIN pets, t \in DOMAIN tasks :
          remove_task(p, t) =>
              ~\E i \in DOMAIN pets'[p].tasks :
                  pets'[p].tasks[i] = t \/ tasks'[pets'[p].tasks[i]] = tasks'[t]]_vars

(***************************************************************************)
(* Properties of the queries of Owner and Pet                              *)
(***************************************************************************)
ListsUnchanged == pets' = pets /\ tasks' = tasks

\* the number of tasks of the pets before pet p
PetOffset(p) == SumSeq([q \in 1..(p - 1) |-> Len(pets[q].tasks)])

IsConcatenation(result) ==
    /\ Len(result) = SumSeq([q \in DOMAIN pets |-> Len(pets[q].tasks)])
    /\ \A p \in DOMAIN pets : \A i \in DOMAIN pets[p].tasks :
           result[PetOffset(p) + i] = pets[p].tasks[i]

\* C22: get_all_tasks() returns the task lists of the pets one after the
\* other, pets in insertion order and tasks in insertion order within a pet;
\* its length is the sum of the pets' task counts, completed tasks included.
C22_GetAllTasksConcatenates ==
    [][call_get_all_tasks =>
          /\ IsConcatenation(last_call'.result)
          /\ \A p \in DOMAIN pets : \A i \in DOMAIN pets[p].tasks :
                 tasks[pets[p].tasks[i]].is_completed
                     => \E k \in DOMAIN last_call'.result :
                            last_call'.result[k] = pets[p].tasks[i]
          /\ ListsUnchanged]_vars

\* two pets; the first pet holds the task created second, which is complete,
\* the second pet the other two
C22_Witness ==
    /\ Called("get_all_tasks")
    /\ Len(pets) = 2
    /\ last_call.result = <<2, 1, 3>>
    /\ tasks[2].is_completed
    /\ ~tasks[1].is_completed

IsPermutationOfAll(result) ==
    /\ Len(result) = Len(AllTasks)
    /\ \A t \in DOMAIN tasks : Occurrences(result, t) = Occurrences(AllTasks, t)

StableDescendingPriority(result) ==
    \A k, m \in DOMAIN result :
        k < m => \/ tasks[result[k]].priority > tasks[result[m]].priority
                 \/ /\ tasks[result[k]].priority = tasks[result[m]].priority
                    /\ AggregationIndex(result[k]) < AggregationIndex(result[m])

StableAscendingTime(result) ==
    \A k, m \in DOMAIN result :
        k < m => \/ tasks[result[k]].duration_minutes < tasks[result[m]].duration_minutes
                 \/ /\ tasks[result[k]].duration_minutes = tasks[result[m]].duration_minutes
                    /\ AggregationIndex(result[k]) < AggregationIndex(result[m])

\* C23: get_tasks_sorted_by_priority() returns a permutation of
\* get_all_tasks() in descending priority and get_tasks_sorted_by_time() one
\* in ascending duration; tasks with equal keys keep their aggregation order,
\* and the pets' task lists are as before.
C23_SortedStablePermutation ==
    [][/\ call_get_tasks_sorted_by_priority =>
             /\ IsPermutationOfAll(last_call'.result)
             /\ StableDescendingPriority(last_call'.result)
             /\ ListsUnchanged
       /\ call_get_tasks_sorted_by_time =>
             /\ IsPermutationOfAll(last_call'.result)
             /\ StableAscendingTime(last_call'.result)
             /\ ListsUnchanged]_vars

\* a long task followed by two short ones of equal duration, sorted by time
C23_Witness ==
    /\ Called("get_tasks_sorted_by_time")
    /\ AllTasks = <<1, 2, 3>>
    /\ last_call.result = <<2, 3, 1>>
    /\ tasks[2].duration_minutes = tasks[3].duration_minutes

\* result holds exactly the elements of lst that satisfy Keep, in the order
\* of lst
IsFilter(lst, result, Keep(_)) ==
    LET kept == {i \in DOMAIN lst : Keep(lst[i])}
    IN /\ Len(result) = Cardinality(kept)
       /\ \A i \in kept : result[Cardinality({j \in kept : j <= i})] = lst[i]

\* C26: the filters of Pet (by priority, by category, by completion,
\* incomplete) and Owner.get_incomplete_tasks return exactly the tasks that
\* satisfy the filter, in list order, and leave the task lists as they were;
\* a task marked complete is not in an incomplete result.
C26_FiltersExact ==
    [][/\ \A p \in DOMAIN pets, priority \in QueryPriorities :
             (Calls("get_tasks_by_priority") /\ call_get_tasks_by_priority(p, priority)) =>
                 /\ IsFilter(pets[p].tasks, last_call'.result,
                             LAMBDA t : tasks[t].priority = priority)
                 /\ ListsUnchanged
       /\ \A p \in DOMAIN pets, category \in QueryCategories :
             (Calls("get_tasks_by_category") /\ call_get_tasks_by_category(p, category)) =>
                 /\ IsFilter(pets[p].tasks, last_call'.result,
                             LAMBDA t : tasks[t].category = category)
                 /\ ListsUnchanged
       /\ \A p \in DOMAIN pets, completed \in BOOLEAN :
             (Calls("get_tasks_by_completion") /\ call_get_tasks_by_completion(p, completed)) =>
                 /\ IsFilter(pets[p].tasks, last_call'.result,
                             LAMBDA t : tasks[t].is_completed = completed)
                 /\ ListsUnchanged
       /\ \A p \in DOMAIN pets :
             (Calls("get_incomplete_tasks") /\ call_get_incomplete_tasks(p)) =>
                 /\ IsFilter(pets[p].tasks, last_call'.result,
                             LAMBDA t : ~tasks[t].is_completed)
                 /\ ListsUnchanged
       /\ (Calls("Owner.get_incomplete_tasks") /\ call_Owner_get_incomplete_tasks) =>
             /\ IsFilter(AllTasks, last_call'.result, LAMBDA t : ~tasks[t].is_completed)
             /\ ListsUnchanged]_vars

\* a pet holds three tasks, the middle one was marked complete, and its
\* incomplete tasks are the other two
C26_Witness ==
    /\ Called("get_incomplete_tasks")
    /\ pets[last_call.self].tasks = <<1, 2, 3>>
    /\ tasks[2].is_completed
    /\ last_call.result = <<1, 3>>

(***************************************************************************)
(* Properties of the totals of a generated schedule                        *)
(***************************************************************************)
ScheduledDurations ==
    SumSeq([i \in DOMAIN schedule.scheduled_tasks |->
               tasks[schedule.scheduled_tasks[i].task].duration_minutes])

\* u hundredths of a percent is a multiple of 0.01 nearest to n / d x 100
NearestHundredth(u, n, d) ==
    LET diff == u * d - 10000 * n
    IN 2 * (IF diff < 0 THEN -diff ELSE diff) <= d

\* C24: in a generated schedule total_time_minutes is the sum of the
\* scheduled durations and, for a budget B > 0, utilization_percentage is
\* total_time_minutes / B x 100 rounded to 2 decimals (50.0 for B = 100 and
\* one 50-minute task); for B = 0 it is 0 and nothing is raised.
C24_UtilizationRounded ==
    /\ pc # "error"
    /\ Returned =>
           /\ schedule.total_time_minutes = ScheduledDurations
           /\ available_time_minutes > 0 =>
                  NearestHundredth(schedule.utilization_percentage,
                                   schedule.total_time_minutes, available_time_minutes)
           /\ (available_time_minutes = 100 /\ schedule.total_time_minutes = 50) =>
                  schedule.utilization_percentage = 5000
           /\ available_time_minutes = 0 => schedule.utilization_percentage = 0

\* budget 100 and one task of 50 minutes
C24_Witness ==
    /\ Returned
    /\ available_time_minutes = 100
    /\ Len(AllTasks) = 1
    /\ Len(schedule.scheduled_tasks) = 1
    /\ tasks[schedule.scheduled_tasks[1].task].duration_minutes = 50
    /\ schedule.utilization_percentage = 5000

TitlesOf(lst) == [i \in DOMAIN lst |-> tasks[lst[i]].title]

InsufficientTimeScenario ==
    /\ available_time_minutes = 40
    /\ Len(pets) = 1
    /\ pets[1].tasks = <<1, 2, 3>>
    /\ tasks[1] = Task("Feed", 10, CRITICAL, "feeding", NoFrequency)
    /\ tasks[2] = Task("Walk", 30, HIGH, "walk", NoFrequency)
    /\ tasks[3] = Task("Groom", 45, LOW, "grooming", NoFrequency)

\* C27: for budget 40 and one pet holding Feed(10, CRITICAL), Walk(30, HIGH),
\* Groom(45, LOW) in this order, generate_schedule returns scheduled =
\* [Feed, Walk], total_time_minutes 40, utilization 100.0 and unscheduled =
\* [Groom].
C27_InsufficientTime ==
    (Returned /\ InsufficientTimeScenario) =>
        /\ [i \in DOMAIN schedule.scheduled_tasks |-> schedule.scheduled_tasks[i].task]
               = <<1, 2>>
        /\ schedule.unscheduled_tasks = <<3>>
        /\ schedule.total_time_minutes = 40
        /\ schedule.utilization_percentage = 10000

C27_Witness ==
    /\ Returned
    /\ InsufficientTimeScenario
    /\ TitlesOf(schedule.unscheduled_tasks) = <<"Groom">>
    /\ Len(schedule.scheduled_tasks) = 2

(***************************************************************************)
(* Properties of the totals and conflicts of a hand-built Schedule         *)
(***************************************************************************)
TotalsOps == {"calculate_total_time", "calculate_utilization"}

\* the latest two calls were the same method with the same arguments
CalledTwice ==
    /\ last_call # None
    /\ previous_run # None
    /\ last_call.op \in TotalsOps
    /\ previous_run.op = last_call.op
    /\ previous_run.args = last_call.args
    /\ previous_run.after.scheduled_tasks = last_call.self.scheduled_tasks

ConflictScenario ==
    /\ Called("detect_conflicts")
    /\ Len(last_call.self.scheduled_tasks) = 2
    /\ last_call.self.scheduled_tasks[1].scheduled_time = StartOfDay
    /\ tasks[last_call.self.scheduled_tasks[1].task].duration_minutes = 30
    /\ last_call.self.scheduled_tasks[2].scheduled_time = StartOfDay + 15
    /\ tasks[last_call.self.scheduled_tasks[2].task].duration_minutes = 20

\* C28 as stated: for ScheduledTasks at 06:00 for 30 minutes and at 06:15 for
\* 20 minutes detect_conflicts() returns exactly one record, whose windows
\* are "06:00-06:30" and "06:15-06:35".
C28_WindowsWithoutSpaces ==
    ConflictScenario =>
        /\ Len(last_call.result) = 1
        /\ last_call.result[1].task1_time = "06:00-06:30"
        /\ last_call.result[1].task2_time = "06:15-06:35"

\* C28, amended: for ScheduledTasks at 06:00 for 30 minutes and at 06:15 for
\* 20 minutes detect_conflicts() returns exactly one record, whose windows
\* are "06:00 - 06:30" and "06:15 - 06:35", a space on each side of the dash.
C28_WindowsWithSpaces ==
    ConflictScenario =>
        /\ Len(last_call.result) = 1
        /\ last_call.result[1].task1_time = "06:00 - 06:30"
        /\ last_call.result[1].task2_time = "06:15 - 06:35"

C28_Witness ==
    /\ ConflictScenario
    /\ Len(last_call.result) = 1
    /\ last_call.result[1].task1 = "Task1"
    /\ last_call.result[1].task2 = "Task2"

(***************************************************************************)
(* Properties of a returned Schedule while tasks are marked complete       *)
(***************************************************************************)
InSchedule(s, t) ==
    \/ \E i \in DOMAIN s.scheduled_tasks : s.scheduled_tasks[i].task = t
    \/ \E i \in DOMAIN s.unscheduled_tasks : s.unscheduled_tasks[i] = t

\* C29: a mark_complete() on a task after the schedule was returned leaves
\* the Schedule's scheduled_tasks, unscheduled_tasks, total_time_minutes and
\* utilization_percentage as they were, and the next occurrence it returns
\* is not in the Schedule; no call but generate_schedule changes a returned
\* Schedule.
C29_MarkCompleteLeavesSchedule ==
    [][/\ pc = "done" => schedule' = schedule
       /\ \A t \in DOMAIN tasks :
              (pc = "done" /\ Calls("mark_complete") /\ mark_complete(t)) =>
                  /\ schedule'.scheduled_tasks = schedule.scheduled_tasks
                  /\ schedule'.unscheduled_tasks = schedule.unscheduled_tasks
                  /\ schedule'.total_time_minutes = schedule.total_time_minutes
                  /\ schedule'.utilization_percentage = schedule.utilization_percentage
                  /\ tasks'[t].is_completed
                  /\ ~InSchedule(schedule', last_call'.result)]_vars

\* a returned Schedule holds a completed recurring task, and the occurrence
\* mark_complete returned is a Task of its own outside the Schedule
C29_Witness ==
    /\ Returned
    /\ Called("mark_complete")
    /\ IsRecurring(Completed)
    /\ tasks[Completed].is_completed
    /\ InSchedule(schedule, Completed)
    /\ Returned_task \in DOMAIN tasks
    /\ ~InSchedule(schedule, Returned_task)

(***************************************************************************)
(* Properties of the times and indexes of a generated schedule             *)
(***************************************************************************)
\* C30: in a generated schedule with a scheduled task the first
\* ScheduledTask starts at 06:00, each later one starts at the start plus
\* the duration of the one before it, without gap or overlap, and the k-th
\* entry has order_index k (0, 1, 2, ...).
C30_ChainedFromStartOfDay ==
    (Returned /\ Len(schedule.scheduled_tasks) >= 1) =>
        LET sts == schedule.scheduled_tasks
        IN /\ sts[1].scheduled_time = StartOfDay
           /\ \A k \in 2..Len(sts) :
                  sts[k].scheduled_time =
                      sts[k - 1].scheduled_time + tasks[sts[k - 1].task].duration_minutes
           /\ \A k \in DOMAIN sts : sts[k].order_index = k - 1

(***************************************************************************)
(* Termination of the greedy loop                                          *)
(***************************************************************************)
\* the passes of the loop body made so far: each pass puts one task into
\* scheduled_tasks or unscheduled_tasks
Iterations == Len(schedule.scheduled_tasks) + Len(schedule.unscheduled_tasks)

\* C31: every pass of the greedy loop takes exactly one task out of the
\* candidate pool, scheduling it or moving it to unscheduled_tasks, so the
\* body runs at most n times for n aggregated tasks, and a generate_schedule
\* call that entered the loop eventually returns a Schedule.
C31_LoopTerminates ==
    /\ [][(pc = "loop" /\ pc' = "loop") =>
             /\ Len(available_tasks') = Len(available_tasks) - 1
             /\ Len(schedule'.scheduled_tasks) + Len(schedule'.unscheduled_tasks)
                    = Iterations + 1]_vars
    /\ [](pc = "loop" => Iterations + Len(available_tasks) = Len(AllTasks))
    /\ (pc = "loop") ~> Returned

\* a call returned after three passes, one of them a rejection
C31_Witness ==
    /\ Returned
    /\ Len(AllTasks) = 3
    /\ Len(schedule.scheduled_tasks) = 2
    /\ \E i \in DOMAIN schedule.unscheduled_tasks :
           IndexOf(SortedByPriority(AllTasks), schedule.unscheduled_tasks[i])
               < IndexOf(SortedByPriority(AllTasks), schedule.scheduled_tasks[2].task)

(***************************************************************************)
(* The frame of generate_schedule                                          *)
(***************************************************************************)
\* the step belongs to a generate_schedule call
InGenerate == pc \in {"idle", "loop"} /\ pc' \in {"loop", "done", "error"}

\* the Task objects of a list of ScheduledTasks followed by a list of Tasks
HeldTasks(s) ==
    [i \in DOMAIN s.scheduled_tasks |-> s.scheduled_tasks[i].task] \o s.unscheduled_tasks

\* C32: a generate_schedule call leaves the owner's budget, the pet list,
\* every pet's task list (contents and order) and every task's fields as
\* they were, and a Schedule returned by a later call starts from lists of
\* its own: it holds each aggregated task once and nothing of the Schedule
\* returned before.
C32_GenerateLeavesInput ==
    /\ [][InGenerate =>
             /\ available_time_minutes' = available_time_minutes
             /\ pets' = pets
             /\ tasks' = tasks]_vars
    /\ [](Regenerated =>
             /\ Len(HeldTasks(schedule)) = Len(AllTasks)
             /\ \A i \in DOMAIN AllTasks : Occurrences(HeldTasks(schedule), AllTasks[i]) = 1
             /\ \A i \in DOMAIN schedule.scheduled_tasks :
                    schedule.scheduled_tasks[i].order_index = i - 1)

\* a second Schedule was returned for an owner whose pet holds a task of
\* lower priority before one of higher priority, and both Schedules hold
\* tasks
C32_Witness ==
    /\ Regenerated
    /\ previous_run.schedule.scheduled_tasks # <<>>
    /\ previous_run.schedule.unscheduled_tasks # <<>>
    /\ schedule.scheduled_tasks # <<>>
    /\ \E p \in DOMAIN pets : pets[p].tasks # SortedByPriority(pets[p].tasks)

(***************************************************************************)
(* The order of the unscheduled tasks                                      *)
(***************************************************************************)
\* position of the Task object t in the priority-sorted task list
SortedPosition(t) ==
    CHOOSE i \in DOMAIN AllTasks : SortedByPriority(AllTasks)[i] = t

\* C33: in every returned schedule, for a positive budget or a budget <= 0,
\* unscheduled_tasks is in descending priority order with tasks of equal
\* priority in aggregation order: the rejected tasks and those left over
\* are a subsequence of the priority-sorted task list.
C33_UnscheduledInPriorityOrder ==
    Returned =>
        /\ PriorityOrdered(schedule.unscheduled_tasks)
        /\ \A i, j \in DOMAIN schedule.unscheduled_tasks :
               i < j => SortedPosition(schedule.unscheduled_tasks[i])
                           < SortedPosition(schedule.unscheduled_tasks[j])

\* a task was rejected before a task of lower priority was scheduled, and a
\* task of yet another priority is unscheduled after it
C33_Witness ==
    /\ Returned
    /\ available_time_minutes > 0
    /\ Len(schedule.unscheduled_tasks) = 2
    /\ Len(schedule.scheduled_tasks) = 1
    /\ tasks[schedule.unscheduled_tasks[1]].priority > tasks[schedule.scheduled_tasks[1].task].priority
    /\ tasks[schedule.unscheduled_tasks[2]].priority < tasks[schedule.scheduled_tasks[1].task].priority
    /\ AllTasks # SortedByPriority(AllTasks)

(***************************************************************************)
(* mark_complete on a task that is already complete                        *)
(***************************************************************************)
\* C34: every mark_complete() call on a task whose frequency is not ONCE,
\* completed before the call or not, returns a new Task with is_completed
\* false, so k calls on one recurring task make k next occurrences; a call
\* on a ONCE task makes none.
C34_EveryCallMakesAnOccurrence ==
    [][\A t \in DOMAIN tasks :
          (Calls("mark_complete") /\ mark_complete(t)) =>
              IF tasks[t].frequency # "once"
              THEN /\ Len(tasks') = Len(tasks) + 1
                   /\ last_call'.result = Len(tasks) + 1
                   /\ ~tasks'[Len(tasks) + 1].is_completed
                   /\ tasks'[Len(tasks) + 1].title = tasks[t].title
                   /\ tasks'[t].is_completed
                   /\ \A u \in DOMAIN tasks : u # t => tasks'[u] = tasks[u]
              ELSE /\ Len(tasks') = Len(tasks)
                   /\ last_call'.result = NoTask]_vars

\* the one recurring task of the pet was marked complete twice: the objects
\* 2 and 3 are its two next occurrences
C34_Witness ==
    /\ Called("mark_complete")
    /\ Len(AllTasks) = 1
    /\ Len(tasks) = 3
    /\ Completed = 1
    /\ Returned_task = 3
    /\ ~tasks[2].is_completed
    /\ ~tasks[3].is_completed

(***************************************************************************)
(* Completed tasks in generate_schedule                                    *)
(***************************************************************************)
\* the pets hold the Task objects they held at the earlier call, and these
\* differ from then in is_completed at most
SameButCompletion ==
    /\ previous_run.pets = pets
    /\ previous_run.available_time_minutes = available_time_minutes
    /\ \A t \in DOMAIN previous_run.tasks :
           [tasks[t] EXCEPT !.is_completed = FALSE]
               = [previous_run.tasks[t] EXCEPT !.is_completed = FALSE]

MarkedSince(t) == t \in DOMAIN previous_run.tasks /\ ~previous_run.tasks[t].is_completed
                     /\ tasks[t].is_completed

\* C35: generate_schedule treats a completed task like an incomplete one:
\* every task of a pet, completed or not, is in the returned Schedule, the
\* total counts the completed tasks that were scheduled, and a second call
\* after tasks were marked complete returns the schedule the first call
\* returned.
C35_CompletedTasksAreCandidates ==
    /\ Returned =>
           /\ \A p \in DOMAIN pets : \A i \in DOMAIN pets[p].tasks :
                  InSchedule(schedule, pets[p].tasks[i])
           /\ schedule.total_time_minutes = ScheduledDurations
    /\ (Regenerated /\ SameButCompletion) => schedule = previous_run.schedule

\* the second call scheduled a task that was marked complete after the
\* first call, and left another task unscheduled
C35_Witness ==
    /\ Regenerated
    /\ SameButCompletion
    /\ schedule.unscheduled_tasks # <<>>
    /\ \E i \in DOMAIN schedule.scheduled_tasks :
           /\ MarkedSince(schedule.scheduled_tasks[i].task)
           /\ schedule.total_time_minutes
                  >= tasks[schedule.scheduled_tasks[i].task].duration_minutes
           /\ tasks[schedule.scheduled_tasks[i].task].duration_minutes > 0

(***************************************************************************)
(* The stored schedule of the app                                          *)
(***************************************************************************)
\* the step replaced the Owner or changed its budget, its pets or a pet's
\* tasks
OwnerDataChanged ==
    \/ preferences' # preferences
    \/ available_time_minutes' # available_time_minutes
    \/ pets' # pets

\* C36: in the app every event that changes the owner's data (create or
\* update owner, add or remove a pet, add or remove a task) sets
\* current_schedule to None; a stored schedule is the one generate_schedule
\* returns for the owner, pets and tasks as they are now; and a schedule is
\* only ever stored from a state with an owner, a pet and a task.
C36_StoredScheduleIsCurrent ==
    /\ [][OwnerDataChanged => schedule' = None]_vars
    /\ [](schedule # None =>
             /\ schedule = generate_schedule
             /\ \A p \in DOMAIN pets : \A i \in DOMAIN pets[p].tasks :
                    InSchedule(schedule, pets[p].tasks[i])
             /\ Len(HeldTasks(schedule)) = Len(AllTasks))
    /\ [][(schedule' # None /\ schedule' # schedule) =>
             (OwnerExists /\ Len(pets) > 0 /\ Len(AllTasks) > 0)]_vars

\* a schedule is stored for an owner with two pets, one of whose tasks was
\* removed before the schedule was generated
C36_Witness ==
    /\ schedule # None
    /\ Len(pets) = 2
    /\ Len(tasks) = 2
    /\ Len(AllTasks) = 1
    /\ Len(schedule.scheduled_tasks) = 1

====
